---- MODULE Spec2Model ----
(***************************************************************************)
(* Model of src/src/gmail_watcher.py: GmailAttachmentWatcher.              *)
(*                                                                         *)
(* The watcher is one thread (start -> _monitor_inbox), written here as    *)
(* a program counter pc over the statements that talk to the IMAP session, *)
(* plus the signal handler, which Python runs between two bytecodes of     *)
(* that thread.  The environment is the mail server: it answers IDLE and   *)
(* DONE, pushes lines while idling, receives new mail and may drop the     *)
(* connection.                                                             *)
(***************************************************************************)
EXTENDS Naturals, Sequences, FiniteSets

VARIABLES
    pc,         \* statement the watcher thread is at
    running,    \* self.running
    mail,       \* self.mail: "None" or "session"
    ids,        \* unseen_ids still to handle in the running scan (head = current)
    ctx,        \* which scan is running: "start", "new", "poll" or "none"
    part,       \* index of the MIME part _process_email is at (0 outside)
    hasAtt,     \* has_attachments of _process_email
    reason,     \* why the IDLE was last terminated: "none", "newdata", "refresh"
    elapsed,    \* time.time() - idle_start_time, in seconds
    conn,       \* transport of the session: "none", "open", "eof", "reset"
    srv,        \* server side of the session: "ready", "gotidle", "idling"
    lines,      \* lines the server has sent and the client has not read yet
    unreported, \* the server holds a new message it has not told this session about
    mbox,       \* per message: "absent", "unseen", "seen"
    files,      \* attachment files written: <<message, part>>
    log,        \* log records emitted: <<kind, message, part>>
    signalled,  \* a shutdown signal has been handled
    idle,       \* the IDLE of this session: "none", "sent", "acked", "done"
    replied,    \* what the server answered to the last IDLE of this session
    lastSent,   \* last command issued on the session
    sentInIdle, \* ... and whether an IDLE was outstanding when it was issued
    scanned,    \* an UNSEEN search has been made on this session
    attempts    \* since the last successful connect: 0 = a failed connect,
                \* n > 0 = a sleep of n seconds

(* the signal the process received last ("none" before the first) *)
VARIABLES
    signum

(* whether a connection that self.mail no longer refers to is still open:  *)
(* _connect_gmail drops a connection whose login or select raised without  *)
(* closing it, and its socket is closed when the interpreter finalizes the *)
(* object: at once where objects are reference-counted ("prompt"), at some *)
(* later time or never elsewhere ("deferred")                              *)
VARIABLES
    orphan,
    collector

(* _sanitize_filename taken alone: its arguments and its result *)
VARIABLES
    sender,          \* the sender header, a sequence of characters
    filename,        \* the original filename
    stamp,           \* the timestamp string
    unique_filename  \* the filename returned (empty before the call)

(* the tags of a session and the wait for the end of an IDLE *)
VARIABLES
    tagnum,          \* imaplib's self.tagnum
    tags,            \* the tags taken on the session, in order
    idle_tag,        \* tag of line 597 (empty before the first handshake)
    idle_resp,       \* the line the termination wait read last
    phase            \* "command", "idling", "waiting" or "ended"

(* _process_email and _process_attachment on the local file system *)
VARIABLES
    docker_mode,     \* self.docker_mode
    summarize,       \* self.config.ENABLE_SUMMARIZATION
    raw,             \* the raw message being processed: sender and parts
    now,             \* the wall clock, in seconds
    timestamp,       \* datetime.now().strftime(...) of line 512
    started,         \* the second at which that timestamp was taken
    partno,          \* the part the loop of line 524 is at (0 outside)
    round,           \* how many times the message has been processed
    disk,            \* the attachments directory: path -> content
    records,         \* attachments.json: the records appended, in order
    writes           \* every call and summary, in order, and what it wrote

watch == <<pc, running, mail, ids, ctx, part, hasAtt, reason, elapsed,
           conn, srv, lines, unreported, mbox, files, log,
           signalled, idle, replied, lastSent, sentInIdle, scanned, attempts,
           signum, orphan, collector>>
san == <<sender, filename, stamp, unique_filename>>
sto == <<docker_mode, summarize, raw, now, timestamp, started, partno, round,
         disk, records, writes>>
tagv == <<tagnum, tags, idle_tag, idle_resp, phase>>
aux == <<san, sto, tagv>>

vars == <<watch, san, sto, tagv>>

prog  == <<pc, running, mail, ids, ctx, part, hasAtt, reason, elapsed>>
net   == <<conn, srv, lines, unreported>>
store == <<mbox, files, log>>
hist  == <<signalled, idle, replied, lastSent, sentInIdle, scanned>>

----------------------------------------------------------------------------
(* Bounds of the model *)

NMsg == 2
MaxLines == 2
TickSecs == 870
MaxFails == 3

(* time.time() - idle_start_time > 1740 *)
IdleRefreshSecs == 1740

(* time.sleep(30) after a failed connect at the top of the monitor loop,   *)
(* time.sleep(10) at the end of the IDLE setup failure handler             *)
ConnectRetrySecs == 30
SetupRetrySecs == 10

Msgs == 1..NMsg

----------------------------------------------------------------------------
(* Messages: the MIME parts message.walk() yields, as _process_email reads *)
(* them: content disposition, get_filename(), get_payload(decode=True).    *)

Part(d, n, p) == [disp |-> d, name |-> n, data |-> p]

MsgParts(m) ==
    CASE m % 3 = 1 -> << Part("attachment", TRUE, TRUE), Part("attachment", TRUE, FALSE),
                         Part("attachment", TRUE, TRUE) >>
      [] m % 3 = 2 -> << Part("inline", TRUE, TRUE), Part("attachment", FALSE, TRUE) >>
      [] OTHER     -> << Part("inline", FALSE, TRUE) >>

(* the test of lines 525-534 without the filename test of line 529 *)
Qualifies_no_filename_test(p) == p.disp = "attachment" /\ p.data

(* the test of lines 525-534 *)
Qualifies(p) == p.disp = "attachment" /\ p.name /\ p.data

QualifyingParts(m) == {i \in 1..Len(MsgParts(m)) : Qualifies(MsgParts(m)[i])}

RECURSIVE UnseenFrom(_)
UnseenFrom(m) ==
    IF m > NMsg THEN <<>>
    ELSE IF mbox[m] = "unseen" THEN <<m>> \o UnseenFrom(m + 1)
    ELSE UnseenFrom(m + 1)

(* message_ids[0].split() of a successful UNSEEN search *)
UnseenIds == UnseenFrom(1)

----------------------------------------------------------------------------
(* The session primitives *)

Tagged(l) == l \in {"ok", "no"}

(* a command is issued through imaplib or self.mail.send *)
Issue(cmd) == /\ lastSent' = cmd
              /\ sentInIdle' = (idle # "none")

(* the server takes DONE: it completes the IDLE it is in *)
ServerDone == IF srv \in {"idling", "gotidle"}
              THEN /\ lines' = Append(lines, "ok")
                   /\ srv' = "ready"
                   /\ unreported' = unreported
              ELSE /\ lines' = Append(lines, "other")
                   /\ srv' = "ready"
                   /\ unreported' = unreported

(* an imaplib command (select, search, fetch, store) that completes: it    *)
(* reads every line up to its own tagged response, the untagged EXISTS of  *)
(* a message that has arrived since the last command among them            *)
CmdOK(cmd) ==
    /\ conn = "open"
    /\ Issue(cmd)
    /\ lines' = <<>>
    /\ srv' = "ready"
    /\ unreported' = FALSE
    /\ conn' = conn
    /\ idle' = IF idle = "done" THEN "none" ELSE idle

(* an imaplib command that raises: the transport is gone; a half-closed    *)
(* socket still takes the bytes, a reset one raises in send                *)
CmdRaise(cmd) ==
    /\ conn # "open"
    /\ IF conn = "eof" THEN Issue(cmd) ELSE UNCHANGED <<lastSent, sentInIdle>>
    /\ UNCHANGED <<net, idle>>

(* the process ends: the locals of the thread and its socket are gone *)
ProcessEnds ==
    /\ ids' = <<>>
    /\ ctx' = "none"
    /\ part' = 0
    /\ hasAtt' = FALSE
    /\ reason' = "none"
    /\ elapsed' = 0
    /\ conn' = "none"
    /\ srv' = "ready"
    /\ lines' = <<>>
    /\ unreported' = FALSE
    /\ orphan' = FALSE

(* where a scan returns to: start -> _monitor_inbox, _process_new_messages *)
(* -> break, _poll_once -> time.sleep(10)                                  *)
ScanReturn == IF ctx = "poll" THEN "sleep10" ELSE "mon_top"

----------------------------------------------------------------------------
WatcherInit ==
    /\ pc = "start"
    /\ running = TRUE
    /\ mail = "None"
    /\ ids = <<>>
    /\ ctx = "none"
    /\ part = 0
    /\ hasAtt = FALSE
    /\ reason = "none"
    /\ elapsed = 0
    /\ conn = "none"
    /\ srv = "ready"
    /\ lines = <<>>
    /\ unreported = FALSE
    /\ mbox = [m \in Msgs |-> "absent"]
    /\ files = {}
    /\ log = {}
    /\ signalled = FALSE
    /\ idle = "none"
    /\ replied = "none"
    /\ lastSent = "none"
    /\ sentInIdle = FALSE
    /\ scanned = FALSE
    /\ attempts = <<>>
    /\ signum = "none"
    /\ orphan = FALSE

(* outside its own specification the sanitizer has not been called *)
SanIdle ==
    /\ sender = <<>>
    /\ filename = <<>>
    /\ stamp = <<>>
    /\ unique_filename = <<>>

(* outside its own specification the local pipeline is at rest *)
StoIdle ==
    /\ docker_mode = FALSE
    /\ summarize = FALSE
    /\ raw = [sender |-> <<>>, parts |-> <<>>]
    /\ now = 0
    /\ timestamp = <<>>
    /\ started = 0
    /\ partno = 0
    /\ round = 0
    /\ disk = <<>>
    /\ records = <<>>
    /\ writes = <<>>

(* outside its own specification no tag is followed *)
TagIdle ==
    /\ tagnum = 0
    /\ tags = <<>>
    /\ idle_tag = <<>>
    /\ idle_resp = <<>>
    /\ phase = "command"

Init == WatcherInit /\ collector = "prompt" /\ SanIdle /\ StoIdle /\ TagIdle

----------------------------------------------------------------------------
(* the record of connect failures and delays, the oldest entries dropped *)
Record(x) == IF Len(attempts) < 2 * MaxFails
             THEN Append(attempts, x)
             ELSE Append(SubSeq(attempts, 3, Len(attempts)), x)

(* _connect_gmail: IMAP4_SSL + login + select; any exception sets          *)
(* self.mail = None and returns False.  When it is login or select that    *)
(* raised, the connection made at line 156 is open and is only dropped: a  *)
(* deferred collector may have closed an earlier such connection by now,   *)
(* or not                                                                  *)
connect_gmail(ok) ==
    /\ mail' = IF ok THEN "session" ELSE "None"
    /\ conn' = IF ok THEN "open" ELSE "none"
    /\ srv' = "ready"
    /\ lines' = <<>>
    /\ unreported' = FALSE
    /\ idle' = "none"
    /\ replied' = "none"
    /\ lastSent' = IF ok THEN "SELECT" ELSE lastSent
    /\ sentInIdle' = FALSE
    /\ scanned' = FALSE
    /\ reason' = "none"
    /\ attempts' = IF ok THEN <<>> ELSE Record(0)
    /\ orphan' \in (IF collector = "prompt" THEN {orphan}
                    ELSE IF ok THEN {orphan, FALSE} ELSE {orphan, FALSE, TRUE})

(* start, lines 761-764 *)
start_connect ==
    /\ pc = "start"
    /\ \E ok \in BOOLEAN :
         /\ connect_gmail(ok)
         /\ pc' = IF ok THEN "start_search" ELSE "exited"
    /\ UNCHANGED <<running, ids, ctx, part, hasAtt, elapsed, store, signalled>>
    /\ UNCHANGED aux
    /\ UNCHANGED signum
    /\ UNCHANGED collector

(* the UNSEEN search of a scan and the loop header over its result *)
Search(c) ==
    \/ /\ CmdOK("SEARCH")
       /\ scanned' = TRUE
       /\ ids' = UnseenIds
       /\ ctx' = IF UnseenIds = <<>> THEN "none" ELSE c
       /\ pc' = IF UnseenIds = <<>>
                THEN (IF c = "poll" THEN "sleep10" ELSE "mon_top")
                ELSE "proc_fetch"
    \/ /\ CmdRaise("SEARCH")
       /\ UNCHANGED <<scanned, ids>>
       /\ ctx' = "none"
       /\ pc' = IF c = "poll" THEN "sleep10" ELSE "mon_top"

(* start, lines 766-779 *)
start_search ==
    /\ pc = "start_search"
    /\ Search("start")
    /\ UNCHANGED <<running, mail, part, hasAtt, reason, elapsed, store, signalled, replied>>
    /\ UNCHANGED attempts
    /\ UNCHANGED aux
    /\ UNCHANGED signum
    /\ UNCHANGED <<orphan, collector>>

(* the fetch with a failure that drops the session handle *)
process_email_fetch_resets_session ==
    /\ pc = "proc_fetch"
    /\ \/ /\ CmdOK("FETCH")
          /\ \/ /\ pc' = "proc_hdr"
                /\ mbox' = [mbox EXCEPT ![Head(ids)] = "seen"]
                /\ log' = log
                /\ mail' = mail
             \/ /\ pc' = "scan_store"
                /\ mbox' = [mbox EXCEPT ![Head(ids)] = "seen"]
                /\ log' = log \cup {<<"email_failed", Head(ids), 0>>}
                /\ mail' = "None"
             \/ /\ pc' = "scan_store"
                /\ mbox' = mbox
                /\ log' = log \cup {<<"email_failed", Head(ids), 0>>}
                /\ mail' = "None"
       \/ /\ CmdRaise("FETCH")
          /\ pc' = "scan_store"
          /\ mbox' = mbox
          /\ log' = log \cup {<<"email_failed", Head(ids), 0>>}
          /\ mail' = "None"
    /\ UNCHANGED <<running, ids, ctx, part, hasAtt, reason, elapsed,
                   files, signalled, replied, scanned>>
    /\ UNCHANGED attempts
    /\ UNCHANGED aux
    /\ UNCHANGED signum
    /\ UNCHANGED <<orphan, collector>>

(* _process_email, lines 500-504: fetch(email_id, '(RFC822)') and parse.   *)
(* RFC822 is BODY[] without PEEK: a server that returns the body sets the  *)
(* message's \Seen flag (RFC 3501, 6.4.5).  A failure is logged (line 546) *)
process_email_fetch ==
    /\ pc = "proc_fetch"
    /\ \/ /\ CmdOK("FETCH")
          /\ \/ /\ pc' = "proc_hdr"                 \* fetched and parsed
                /\ mbox' = [mbox EXCEPT ![Head(ids)] = "seen"]
                /\ log' = log
             \/ /\ pc' = "scan_store"               \* fetched, not parsable
                /\ mbox' = [mbox EXCEPT ![Head(ids)] = "seen"]
                /\ log' = log \cup {<<"email_failed", Head(ids), 0>>}
             \/ /\ pc' = "scan_store"               \* no body returned
                /\ mbox' = mbox
                /\ log' = log \cup {<<"email_failed", Head(ids), 0>>}
       \/ /\ CmdRaise("FETCH")
          /\ pc' = "scan_store"
          /\ mbox' = mbox
          /\ log' = log \cup {<<"email_failed", Head(ids), 0>>}
    /\ UNCHANGED <<running, mail, ids, ctx, part, hasAtt, reason, elapsed,
                   files, signalled, replied, scanned>>
    /\ UNCHANGED attempts
    /\ UNCHANGED aux
    /\ UNCHANGED signum
    /\ UNCHANGED <<orphan, collector>>

(* _process_email, lines 506-522: headers, timestamp, the "Processing      *)
(* email from" record, has_attachments = False                             *)
process_email_headers ==
    /\ pc = "proc_hdr"
    /\ pc' = "proc_part"
    /\ part' = 1
    /\ hasAtt' = FALSE
    /\ log' = log \cup {<<"processing", Head(ids), 0>>}
    /\ UNCHANGED <<running, mail, ids, ctx, reason, elapsed, net, mbox, files, hist>>
    /\ UNCHANGED attempts
    /\ UNCHANGED aux
    /\ UNCHANGED signum
    /\ UNCHANGED <<orphan, collector>>

(* filename.lower().endswith('.pdf') and self.config.ENABLE_SUMMARIZATION:  *)
(* here the first part of a message is the PDF                             *)
IsPdf(m, i) == i = 1

AnalysisOutcomes == {"described", "no_text", "failed"}

(* _process_pdf, lines 456-496, with outcome a: the summary is written, no *)
(* text was extracted (warning, return), or extraction, description or the *)
(* summary write raised and the exception is logged at line 496.  The      *)
(* records it emits; it never raises an Exception to its caller.           *)
process_pdf(m, i, a) ==
    CASE a = "described" -> {<<"analysis_ok", m, i>>}
      [] a = "no_text"   -> {<<"analysis_no_text", m, i>>}
      [] OTHER           -> {<<"analysis_failed", m, i>>}

(* _process_attachment with a failure of the PDF analysis reaching the      *)
(* except clause of line 452: "Failed to save attachment", return None     *)
process_attachment_analysis_raises(m, i, ok, a) ==
    IF ok
    THEN /\ files' = files \cup {<<m, i>>}
         /\ log' = log \cup {<<"saved", m, i>>}
                       \cup (IF IsPdf(m, i) THEN process_pdf(m, i, a) ELSE {})
                       \cup (IF IsPdf(m, i) /\ a = "failed"
                             THEN {<<"save_failed", m, i>>} ELSE {})
    ELSE /\ files' = files
         /\ log' = log \cup {<<"save_failed", m, i>>}

(* _process_attachment, lines 410-454, on part i of message m: the write   *)
(* of the file succeeds or raises; after a write the PDF is analysed       *)
process_attachment(m, i, ok, a) ==
    IF ok
    THEN /\ files' = files \cup {<<m, i>>}
         /\ log' = log \cup {<<"saved", m, i>>}
                       \cup (IF IsPdf(m, i) THEN process_pdf(m, i, a) ELSE {})
    ELSE /\ files' = files
         /\ log' = log \cup {<<"save_failed", m, i>>}

(* the loop over the parts left at the first attachment that fails *)
process_email_part_stops_on_failure ==
    /\ pc = "proc_part"
    /\ LET m == Head(ids)
           ps == MsgParts(m)
       IN IF part > Len(ps)
          THEN /\ pc' = "scan_store"
               /\ part' = 0
               /\ hasAtt' = FALSE
               /\ files' = files
               /\ log' = IF hasAtt THEN log ELSE log \cup {<<"no_attachments", m, 0>>}
          ELSE /\ pc' = pc
               /\ hasAtt' = (hasAtt \/ ps[part].disp = "attachment")
               /\ IF Qualifies(ps[part])
                  THEN \E ok \in BOOLEAN, a \in AnalysisOutcomes :
                          /\ process_attachment(m, part, ok, a)
                          /\ part' = IF ok THEN part + 1 ELSE Len(ps) + 1
                  ELSE /\ part' = part + 1
                       /\ UNCHANGED <<files, log>>
    /\ UNCHANGED <<running, mail, ids, ctx, reason, elapsed, net, mbox, hist>>
    /\ UNCHANGED attempts
    /\ UNCHANGED aux
    /\ UNCHANGED signum
    /\ UNCHANGED <<orphan, collector>>

(* _process_email, lines 524-543: one turn of the loop over the parts *)
process_email_part ==
    /\ pc = "proc_part"
    /\ LET m == Head(ids)
           ps == MsgParts(m)
       IN IF part > Len(ps)
          THEN /\ pc' = "scan_store"
               /\ part' = 0
               /\ hasAtt' = FALSE
               /\ files' = files
               /\ log' = IF hasAtt THEN log ELSE log \cup {<<"no_attachments", m, 0>>}
          ELSE /\ pc' = pc
               /\ part' = part + 1
               /\ hasAtt' = (hasAtt \/ ps[part].disp = "attachment")
               /\ IF Qualifies(ps[part])
                  THEN \E ok \in BOOLEAN, a \in AnalysisOutcomes :
                          process_attachment(m, part, ok, a)
                  ELSE UNCHANGED <<files, log>>
    /\ UNCHANGED <<running, mail, ids, ctx, reason, elapsed, net, mbox, hist>>
    /\ UNCHANGED attempts
    /\ UNCHANGED aux
    /\ UNCHANGED signum
    /\ UNCHANGED <<orphan, collector>>

(* the store wrapped in its own try/except inside the loop: a raising      *)
(* store is passed over and the loop goes on to the next message           *)
scan_store_continues_on_raise ==
    /\ pc = "scan_store"
    /\ \/ /\ CmdOK("STORE")
          /\ mbox' = [mbox EXCEPT ![Head(ids)] = "seen"]
       \/ /\ CmdRaise("STORE")
          /\ mbox' = mbox
    /\ ids' = Tail(ids)
    /\ pc' = IF Tail(ids) = <<>> THEN ScanReturn ELSE "proc_fetch"
    /\ ctx' = IF Tail(ids) = <<>> THEN "none" ELSE ctx
    /\ UNCHANGED <<running, mail, part, hasAtt, reason, elapsed, files, log,
                   signalled, replied, scanned>>
    /\ UNCHANGED attempts
    /\ UNCHANGED aux
    /\ UNCHANGED signum
    /\ UNCHANGED <<orphan, collector>>

(* self.mail.store(email_id, '+FLAGS', '\\Seen') and the loop header *)
scan_store ==
    /\ pc = "scan_store"
    /\ \/ /\ CmdOK("STORE")
          /\ mbox' = [mbox EXCEPT ![Head(ids)] = "seen"]
          /\ ids' = Tail(ids)
          /\ pc' = IF Tail(ids) = <<>> THEN ScanReturn ELSE "proc_fetch"
          /\ ctx' = IF Tail(ids) = <<>> THEN "none" ELSE ctx
       \/ /\ CmdRaise("STORE")
          /\ mbox' = mbox
          /\ ids' = <<>>
          /\ pc' = ScanReturn
          /\ ctx' = "none"
    /\ UNCHANGED <<running, mail, part, hasAtt, reason, elapsed, files, log,
                   signalled, replied, scanned>>
    /\ UNCHANGED attempts
    /\ UNCHANGED aux
    /\ UNCHANGED signum
    /\ UNCHANGED <<orphan, collector>>

----------------------------------------------------------------------------
(* _monitor_inbox *)

(* line 582, while self.running, and line 585, if not self.mail *)
monitor_top ==
    /\ pc = "mon_top"
    /\ IF ~running
       THEN /\ pc' = "exited"
            /\ ProcessEnds
       ELSE /\ pc' = IF mail = "None" THEN "mon_connect" ELSE "mon_select"
            /\ UNCHANGED <<ids, ctx, part, hasAtt, reason, elapsed, net, orphan>>
    /\ UNCHANGED <<running, mail, store, hist>>
    /\ UNCHANGED attempts
    /\ UNCHANGED aux
    /\ UNCHANGED signum
    /\ UNCHANGED collector

(* the connect of lines 586-588 with the loop continued at once after a    *)
(* failure, without time.sleep(30)                                         *)
monitor_connect_no_delay ==
    /\ pc = "mon_connect"
    /\ \E ok \in BOOLEAN :
         /\ connect_gmail(ok)
         /\ pc' = IF ok THEN "mon_select" ELSE "mon_top"
    /\ UNCHANGED <<running, ids, ctx, part, hasAtt, elapsed, store, signalled>>
    /\ UNCHANGED aux
    /\ UNCHANGED signum
    /\ UNCHANGED collector

(* lines 586-588 *)
monitor_connect ==
    /\ pc = "mon_connect"
    /\ \E ok \in BOOLEAN :
         /\ connect_gmail(ok)
         /\ pc' = IF ok THEN "mon_select" ELSE "sleep30"
    /\ UNCHANGED <<running, ids, ctx, part, hasAtt, elapsed, store, signalled>>
    /\ UNCHANGED aux
    /\ UNCHANGED signum
    /\ UNCHANGED collector

(* time.sleep(30); continue *)
monitor_sleep30 ==
    /\ pc = "sleep30"
    /\ pc' = "mon_top"
    /\ attempts' = Record(ConnectRetrySecs)
    /\ UNCHANGED <<running, mail, ids, ctx, part, hasAtt, reason, elapsed,
                   net, store, hist>>
    /\ UNCHANGED aux
    /\ UNCHANGED signum
    /\ UNCHANGED <<orphan, collector>>

(* line 591 *)
monitor_select ==
    /\ pc = "mon_select"
    /\ \/ /\ CmdOK("SELECT")
          /\ pc' = "idle_send"
       \/ /\ CmdRaise("SELECT")
          /\ pc' = "setup_fail"
    /\ UNCHANGED <<running, mail, ids, ctx, part, hasAtt, reason, elapsed,
                   store, signalled, replied, scanned>>
    /\ UNCHANGED attempts
    /\ UNCHANGED aux
    /\ UNCHANGED signum
    /\ UNCHANGED <<orphan, collector>>

(* lines 596-600: tag = _new_tag(); send(tag IDLE) *)
monitor_idle_send ==
    /\ pc = "idle_send"
    /\ \/ /\ conn = "open"
          /\ srv' = "gotidle"
          /\ pc' = "ack_read"
          /\ idle' = "sent"
          /\ Issue("IDLE")
       \/ /\ conn = "eof"          \* the bytes go into a half-closed socket
          /\ srv' = srv
          /\ pc' = "ack_read"
          /\ idle' = "sent"
          /\ Issue("IDLE")
       \/ /\ conn \in {"eof", "reset"}
          /\ srv' = srv
          /\ pc' = "setup_fail"
          /\ idle' = idle
          /\ UNCHANGED <<lastSent, sentInIdle>>
    /\ replied' = "none"
    /\ reason' = "none"
    /\ UNCHANGED <<running, mail, ids, ctx, part, hasAtt, elapsed, conn, lines,
                   unreported, store, signalled, scanned>>
    /\ UNCHANGED attempts
    /\ UNCHANGED aux
    /\ UNCHANGED signum
    /\ UNCHANGED <<orphan, collector>>

(* self.mail.readline(): a line, b'' at end of stream, or an exception;    *)
(* with nothing to read on an open transport the call blocks               *)
CanRead == lines # <<>> \/ conn \in {"eof", "reset"}
ReadRaises == lines = <<>> /\ conn = "reset"
ReadLine == IF lines # <<>> THEN Head(lines) ELSE ""

(* the acknowledgment loop without the NO/BAD test of lines 612-613: a     *)
(* rejection is skipped like any other line                                *)
monitor_ack_readline_no_reject ==
    /\ pc = "ack_read"
    /\ CanRead
    /\ lines' = IF lines # <<>> THEN Tail(lines) ELSE lines
    /\ IF ReadRaises
       THEN /\ pc' = "setup_fail"
            /\ UNCHANGED <<idle, elapsed>>
       ELSE IF ReadLine \in {"idling", "ok"}
       THEN /\ pc' = "wait_read"
            /\ idle' = IF ReadLine = "idling" THEN "acked" ELSE "none"
            /\ elapsed' = 0
       ELSE /\ pc' = pc
            /\ idle' = IF ReadLine = "no" THEN "none" ELSE idle
            /\ elapsed' = elapsed
    /\ UNCHANGED <<running, mail, ids, ctx, part, hasAtt, reason, conn, srv,
                   unreported, store, signalled, replied, lastSent, sentInIdle,
                   scanned>>
    /\ UNCHANGED attempts
    /\ UNCHANGED aux
    /\ UNCHANGED signum
    /\ UNCHANGED <<orphan, collector>>

(* lines 603-613: the acknowledgment loop, one readline *)
monitor_ack_readline ==
    /\ pc = "ack_read"
    /\ CanRead
    /\ lines' = IF lines # <<>> THEN Tail(lines) ELSE lines
    /\ IF ReadRaises
       THEN /\ pc' = "setup_fail"
            /\ UNCHANGED <<idle, elapsed>>
       ELSE CASE ReadLine = "idling" ->
                   /\ pc' = "wait_read"
                   /\ idle' = "acked"
                   /\ elapsed' = 0
              [] ReadLine = "ok" ->
                   /\ pc' = "wait_read"
                   /\ idle' = "none"
                   /\ elapsed' = 0
              [] ReadLine = "no" ->
                   /\ pc' = "setup_fail"
                   /\ idle' = "none"
                   /\ elapsed' = elapsed
              [] OTHER ->
                   /\ pc' = pc
                   /\ UNCHANGED <<idle, elapsed>>
    /\ UNCHANGED <<running, mail, ids, ctx, part, hasAtt, reason, conn, srv,
                   unreported, store, signalled, replied, lastSent, sentInIdle,
                   scanned>>
    /\ UNCHANGED attempts
    /\ UNCHANGED aux
    /\ UNCHANGED signum
    /\ UNCHANGED <<orphan, collector>>

(* lines 617-628 and 645-647: one readline of the wait loop, the EXISTS    *)
(* test and, when the line is not a new-message line, the 29-minute test   *)
monitor_wait_readline ==
    /\ pc = "wait_read"
    /\ IF ~running
       THEN /\ pc' = "mon_top"
            /\ UNCHANGED <<lines, reason, idle>>
       ELSE /\ CanRead
            /\ lines' = IF lines # <<>> THEN Tail(lines) ELSE lines
            /\ idle' = IF Tagged(ReadLine) THEN "none" ELSE idle
            /\ IF ReadRaises
               THEN /\ pc' = "wait_exc"
                    /\ reason' = reason
               ELSE IF ReadLine = "exists"
               THEN /\ pc' = "term_done"
                    /\ reason' = "newdata"
               ELSE IF elapsed > IdleRefreshSecs
               THEN /\ pc' = "term_done"
                    /\ reason' = "refresh"
               ELSE /\ pc' = pc
                    /\ reason' = reason
    /\ UNCHANGED <<running, mail, ids, ctx, part, hasAtt, elapsed, conn, srv,
                   unreported, store, signalled, replied, lastSent, sentInIdle, scanned>>
    /\ UNCHANGED attempts
    /\ UNCHANGED aux
    /\ UNCHANGED signum
    /\ UNCHANGED <<orphan, collector>>

(* self.mail.send(b'DONE\r\n') *)
SendDone(okpc, failpc) ==
    \/ /\ conn = "open"
       /\ ServerDone
       /\ conn' = conn
       /\ Issue("DONE")
       /\ idle' = IF idle = "none" THEN "none" ELSE "done"
       /\ pc' = okpc
    \/ /\ conn = "eof"
       /\ UNCHANGED net
       /\ Issue("DONE")
       /\ idle' = IF idle = "none" THEN "none" ELSE "done"
       /\ pc' = okpc
    \/ /\ conn \in {"eof", "reset"}
       /\ UNCHANGED <<net, lastSent, sentInIdle>>
       /\ idle' = idle
       /\ pc' = failpc

(* lines 631 and 648 *)
monitor_send_done ==
    /\ pc = "term_done"
    /\ SendDone("term_ack", "wait_exc")
    /\ UNCHANGED <<running, mail, ids, ctx, part, hasAtt, reason, elapsed,
                   store, signalled, replied, scanned>>
    /\ UNCHANGED attempts
    /\ UNCHANGED aux
    /\ UNCHANGED signum
    /\ UNCHANGED <<orphan, collector>>

(* the termination wait with _process_new_messages called on both paths,   *)
(* the refresh too                                                         *)
monitor_term_readline_scans ==
    /\ pc = "term_ack"
    /\ CanRead
    /\ lines' = IF lines # <<>> THEN Tail(lines) ELSE lines
    /\ IF ReadRaises
       THEN /\ pc' = "wait_exc"
            /\ idle' = idle
       ELSE IF Tagged(ReadLine)
       THEN /\ pc' = "pnm_select"
            /\ idle' = "none"
       ELSE /\ pc' = pc
            /\ idle' = idle
    /\ UNCHANGED <<running, mail, ids, ctx, part, hasAtt, reason, elapsed,
                   conn, srv, unreported, store, signalled, replied, lastSent,
                   sentInIdle, scanned>>
    /\ UNCHANGED attempts
    /\ UNCHANGED aux
    /\ UNCHANGED signum
    /\ UNCHANGED <<orphan, collector>>

(* lines 634-637 and 651-654: wait for a line that contains the tag, then  *)
(* _process_new_messages (new data) or break (refresh)                     *)
monitor_term_readline ==
    /\ pc = "term_ack"
    /\ CanRead
    /\ lines' = IF lines # <<>> THEN Tail(lines) ELSE lines
    /\ IF ReadRaises
       THEN /\ pc' = "wait_exc"
            /\ idle' = idle
       ELSE IF Tagged(ReadLine)
       THEN /\ pc' = IF reason = "newdata" THEN "pnm_select" ELSE "mon_top"
            /\ idle' = "none"
       ELSE /\ pc' = pc
            /\ idle' = idle
    /\ UNCHANGED <<running, mail, ids, ctx, part, hasAtt, reason, elapsed,
                   conn, srv, unreported, store, signalled, replied, lastSent,
                   sentInIdle, scanned>>
    /\ UNCHANGED attempts
    /\ UNCHANGED aux
    /\ UNCHANGED signum
    /\ UNCHANGED <<orphan, collector>>

(* lines 657-664: log, try DONE, break *)
monitor_wait_except ==
    /\ pc = "wait_exc"
    /\ SendDone("mon_top", "mon_top")
    /\ UNCHANGED <<running, mail, ids, ctx, part, hasAtt, reason, elapsed,
                   store, signalled, replied, scanned>>
    /\ UNCHANGED attempts
    /\ UNCHANGED aux
    /\ UNCHANGED signum
    /\ UNCHANGED <<orphan, collector>>

(* _process_new_messages, lines 552-557 *)
process_new_messages_select ==
    /\ pc = "pnm_select"
    /\ IF mail = "None"
       THEN /\ pc' = "mon_top"
            /\ UNCHANGED <<net, idle, lastSent, sentInIdle>>
       ELSE \/ /\ CmdOK("SELECT")
               /\ pc' = "pnm_search"
            \/ /\ CmdRaise("SELECT")
               /\ pc' = "mon_top"
    /\ UNCHANGED <<running, mail, ids, ctx, part, hasAtt, reason, elapsed,
                   store, signalled, replied, scanned>>
    /\ UNCHANGED attempts
    /\ UNCHANGED aux
    /\ UNCHANGED signum
    /\ UNCHANGED <<orphan, collector>>

(* _process_new_messages, lines 559-563 *)
process_new_messages_search ==
    /\ pc = "pnm_search"
    /\ Search("new")
    /\ UNCHANGED <<running, mail, part, hasAtt, reason, elapsed, store, signalled, replied>>
    /\ UNCHANGED attempts
    /\ UNCHANGED aux
    /\ UNCHANGED signum
    /\ UNCHANGED <<orphan, collector>>

(* lines 666-676: log, try logout, self.mail = None *)
monitor_setup_failed ==
    /\ pc = "setup_fail"
    /\ pc' = "sf_connect"
    /\ IF mail # "None" /\ conn \in {"open", "eof"}
       THEN Issue("LOGOUT")
       ELSE UNCHANGED <<lastSent, sentInIdle>>
    /\ mail' = "None"
    /\ conn' = "none"
    /\ srv' = "ready"
    /\ lines' = <<>>
    /\ unreported' = FALSE
    /\ idle' = "none"
    /\ UNCHANGED <<running, ids, ctx, part, hasAtt, reason, elapsed,
                   store, signalled, replied, scanned>>
    /\ UNCHANGED attempts
    /\ UNCHANGED aux
    /\ UNCHANGED signum
    /\ UNCHANGED <<orphan, collector>>

(* lines 679-680 *)
monitor_reconnect ==
    /\ pc = "sf_connect"
    /\ \E ok \in BOOLEAN :
         /\ connect_gmail(ok)
         /\ pc' = IF ok THEN "poll_select" ELSE "sleep10"
    /\ UNCHANGED <<running, ids, ctx, part, hasAtt, elapsed, store, signalled>>
    /\ UNCHANGED aux
    /\ UNCHANGED signum
    /\ UNCHANGED collector

(* _poll_once, line 687 *)
poll_once_select ==
    /\ pc = "poll_select"
    /\ \/ /\ CmdOK("SELECT")
          /\ pc' = "poll_search"
       \/ /\ CmdRaise("SELECT")
          /\ pc' = "sleep10"
    /\ UNCHANGED <<running, mail, ids, ctx, part, hasAtt, reason, elapsed,
                   store, signalled, replied, scanned>>
    /\ UNCHANGED attempts
    /\ UNCHANGED aux
    /\ UNCHANGED signum
    /\ UNCHANGED <<orphan, collector>>

(* _poll_once, lines 688-693 *)
poll_once_search ==
    /\ pc = "poll_search"
    /\ Search("poll")
    /\ UNCHANGED <<running, mail, part, hasAtt, reason, elapsed, store, signalled, replied>>
    /\ UNCHANGED attempts
    /\ UNCHANGED aux
    /\ UNCHANGED signum
    /\ UNCHANGED <<orphan, collector>>

(* the end of the failure handler going on to poll again while a session   *)
(* is held, instead of back to the IDLE handshake                          *)
monitor_sleep10_polls_again ==
    /\ pc = "sleep10"
    /\ pc' = IF mail = "session" /\ running THEN "poll_select" ELSE "mon_top"
    /\ attempts' = IF attempts = <<>> THEN attempts ELSE Record(SetupRetrySecs)
    /\ UNCHANGED <<running, mail, ids, ctx, part, hasAtt, reason, elapsed,
                   net, store, hist>>
    /\ UNCHANGED aux
    /\ UNCHANGED signum
    /\ UNCHANGED <<orphan, collector>>

(* line 682, time.sleep(10) *)
monitor_sleep10 ==
    /\ pc = "sleep10"
    /\ pc' = "mon_top"
    /\ attempts' = IF attempts = <<>> THEN attempts ELSE Record(SetupRetrySecs)
    /\ UNCHANGED <<running, mail, ids, ctx, part, hasAtt, reason, elapsed,
                   net, store, hist>>
    /\ UNCHANGED aux
    /\ UNCHANGED signum
    /\ UNCHANGED <<orphan, collector>>

----------------------------------------------------------------------------
(* _signal_handler, lines 102-111: running = False, logout if a session is *)
(* held, sys.exit(0).  SystemExit is raised where the thread was           *)
(* interrupted.  After logout() the socket is shut down: reads and sends   *)
(* on the session raise (here: transport "reset"), unless the interrupted  *)
(* code goes on to discard the session.                                    *)
signal_handler_body(discarded) ==
    /\ running' = FALSE
    /\ signalled' = TRUE
    /\ IF mail # "None"
       THEN /\ IF conn \in {"open", "eof"} THEN Issue("LOGOUT")
                                           ELSE UNCHANGED <<lastSent, sentInIdle>>
            /\ conn' = IF discarded THEN "none" ELSE "reset"
            /\ srv' = "ready"
            /\ lines' = <<>>
            /\ unreported' = FALSE
            /\ idle' = IF discarded \/ (idle = "done" /\ conn = "open")
                       THEN "none" ELSE idle
       ELSE UNCHANGED <<lastSent, sentInIdle, net, idle>>

(* the signals that lines 89-90 register _signal_handler for *)
Signals == {"SIGINT", "SIGTERM"}

(* signal_handler with the registration of line 90 left out: SIGTERM has   *)
(* its default disposition and kills the process at once                   *)
signal_handler_sigint_only ==
    /\ pc # "exited"
    /\ \E s \in Signals :
           /\ signum' = s
           /\ running' = (IF s = "SIGINT" THEN FALSE ELSE running)
           /\ signalled' = TRUE
           /\ IF s = "SIGINT" /\ mail # "None" /\ conn \in {"open", "eof"}
              THEN Issue("LOGOUT")
              ELSE UNCHANGED <<lastSent, sentInIdle>>
    /\ idle' = IF idle = "done" /\ conn = "open" THEN "none" ELSE idle
    /\ pc' = "exited"
    /\ ProcessEnds
    /\ UNCHANGED <<mail, store, replied, scanned>>
    /\ UNCHANGED attempts
    /\ UNCHANGED aux
    /\ UNCHANGED collector

(* the signal arrives outside a bare except: SystemExit ends the process,  *)
(* and with it the thread's locals and the socket                          *)
signal_handler ==
    /\ pc # "exited"
    /\ signum' \in Signals
    /\ running' = FALSE
    /\ signalled' = TRUE
    /\ IF mail # "None" /\ conn \in {"open", "eof"}
       THEN Issue("LOGOUT")
       ELSE UNCHANGED <<lastSent, sentInIdle>>
    /\ idle' = IF idle = "done" /\ conn = "open" THEN "none" ELSE idle
    /\ pc' = "exited"
    /\ ProcessEnds
    /\ UNCHANGED <<mail, store, replied, scanned>>
    /\ UNCHANGED attempts
    /\ UNCHANGED aux
    /\ UNCHANGED collector

(* the signal arrives inside a try whose bare except swallows SystemExit:  *)
(* the DONE of lines 660-663, the logout of lines 671-675, the header      *)
(* decoding of lines 191-201                                               *)
signal_handler_swallowed ==
    /\ pc \in {"wait_exc", "setup_fail", "proc_hdr"}
    /\ signum' \in Signals
    /\ signal_handler_body(pc = "setup_fail")
    /\ CASE pc = "wait_exc" ->
              /\ pc' = "mon_top"
              /\ UNCHANGED <<mail, part, hasAtt>>
         [] pc = "setup_fail" ->
              /\ pc' = "sf_connect"
              /\ mail' = "None"
              /\ UNCHANGED <<part, hasAtt>>
         [] pc = "proc_hdr" ->
              /\ pc' = "proc_part"
              /\ part' = 1
              /\ hasAtt' = FALSE
              /\ mail' = mail
    /\ log' = IF pc = "proc_hdr" THEN log \cup {<<"processing", Head(ids), 0>>} ELSE log
    /\ UNCHANGED <<ids, ctx, reason, elapsed, mbox, files, replied, scanned>>
    /\ UNCHANGED attempts
    /\ UNCHANGED aux
    /\ UNCHANGED <<orphan, collector>>

----------------------------------------------------------------------------
(* The mail server and the network *)

(* a message is delivered to INBOX.  A server that is idling pushes        *)
(* "* n EXISTS"; otherwise it holds the news until it next writes to the   *)
(* session: with the response to the next command, or right after the      *)
(* continuation line of the next IDLE.                                     *)
Arrive(m) ==
    /\ pc # "exited"
    /\ mbox[m] = "absent"
    /\ \A k \in 1..(m - 1) : mbox[k] # "absent"
    /\ mbox' = [mbox EXCEPT ![m] = "unseen"]
    /\ IF conn = "open" /\ srv = "idling"
       THEN /\ Len(lines) < MaxLines
            /\ lines' = Append(lines, "exists")
            /\ unreported' = unreported
       ELSE /\ lines' = lines
            /\ unreported' = (conn = "open")
    /\ UNCHANGED <<prog, conn, srv, files, log, hist>>
    /\ UNCHANGED attempts
    /\ UNCHANGED aux
    /\ UNCHANGED signum
    /\ UNCHANGED <<orphan, collector>>

(* the server answers IDLE: "+ idling", another continuation text, or a    *)
(* tagged OK, NO or BAD                                                    *)
ServerIdleReply ==
    /\ conn = "open"
    /\ srv = "gotidle"
    /\ \E r \in {"idling", "other", "ok", "no"} :
         /\ replied' = r
         /\ IF r \in {"idling", "other"}
            THEN /\ lines' = IF unreported THEN lines \o <<r, "exists">>
                                           ELSE Append(lines, r)
                 /\ srv' = "idling"
                 /\ unreported' = FALSE
            ELSE /\ lines' = Append(lines, r)
                 /\ srv' = "ready"
                 /\ unreported' = unreported
    /\ UNCHANGED <<prog, conn, store, signalled, idle, lastSent, sentInIdle, scanned>>
    /\ UNCHANGED attempts
    /\ UNCHANGED aux
    /\ UNCHANGED signum
    /\ UNCHANGED <<orphan, collector>>

(* an untagged line that is not a new-message line, e.g. a keep-alive *)
ServerOther ==
    /\ conn = "open"
    /\ srv = "idling"
    /\ Len(lines) < MaxLines
    /\ lines' = Append(lines, "other")
    /\ UNCHANGED <<prog, conn, srv, unreported, store, hist>>
    /\ UNCHANGED attempts
    /\ UNCHANGED aux
    /\ UNCHANGED signum
    /\ UNCHANGED <<orphan, collector>>

(* the connection is lost: closed by the peer (reads return b'') or reset  *)
(* (reads raise)                                                           *)
ConnDrop ==
    /\ pc # "exited"
    /\ conn = "open"
    /\ \E how \in {"eof", "reset"} :
         /\ conn' = how
         /\ lines' = IF how = "reset" THEN <<>> ELSE lines
    /\ srv' = "ready"
    /\ unreported' = FALSE
    /\ UNCHANGED <<prog, store, hist>>
    /\ UNCHANGED attempts
    /\ UNCHANGED aux
    /\ UNCHANGED signum
    /\ UNCHANGED <<orphan, collector>>

(* time passes while the wait loop is blocked in readline *)
Tick ==
    /\ pc = "wait_read"
    /\ elapsed <= IdleRefreshSecs
    /\ elapsed' = elapsed + TickSecs
    /\ UNCHANGED <<pc, running, mail, ids, ctx, part, hasAtt, reason,
                   net, store, hist>>
    /\ UNCHANGED attempts
    /\ UNCHANGED aux
    /\ UNCHANGED signum
    /\ UNCHANGED <<orphan, collector>>

----------------------------------------------------------------------------
Watcher ==
    \/ start_connect
    \/ start_search
    \/ process_email_fetch
    \/ process_email_headers
    \/ process_email_part
    \/ scan_store
    \/ monitor_top
    \/ monitor_connect
    \/ monitor_sleep30
    \/ monitor_select
    \/ monitor_idle_send
    \/ monitor_ack_readline
    \/ monitor_wait_readline
    \/ monitor_send_done
    \/ monitor_term_readline
    \/ monitor_wait_except
    \/ process_new_messages_select
    \/ process_new_messages_search
    \/ monitor_setup_failed
    \/ monitor_reconnect
    \/ poll_once_select
    \/ poll_once_search
    \/ monitor_sleep10

Environment ==
    \/ \E m \in Msgs : Arrive(m)
    \/ ServerIdleReply
    \/ ServerOther
    \/ ConnDrop
    \/ Tick
    \/ signal_handler
    \/ signal_handler_swallowed

Next == Watcher \/ Environment

Spec == Init /\ [][Next]_vars

(* the interpreter keeps running the thread: a statement that can execute  *)
(* does execute; and time passes                                           *)
FairSpec == Spec /\ WF_vars(Watcher) /\ WF_vars(Tick)

(* the watcher on any interpreter, whenever it may finalize a dropped      *)
(* object                                                                  *)
Collectors == {"prompt", "deferred"}
AnyCollectorInit == WatcherInit /\ collector \in Collectors /\ SanIdle /\ StoIdle /\ TagIdle

AnyCollectorSpec == AnyCollectorInit /\ [][Next]_vars

(***************************************************************************)
(* _sanitize_filename (lines 167-187).  A string is a sequence of          *)
(* characters; an ASCII character is written as itself, another one as its *)
(* code point ("U+00E9" is e with acute accent, "U+00C9" its capital).     *)
(* The regular expressions are modelled by what                            *)
(* Python's re module does with them on str patterns: \w is the Unicode    *)
(* word class, \s the white space class, and re.search returns the         *)
(* leftmost match, trying the alternatives in order at each position.      *)
(***************************************************************************)
ascii_lowercase ==
    <<"a","b","c","d","e","f","g","h","i","j","k","l","m",
      "n","o","p","q","r","s","t","u","v","w","x","y","z">>
ascii_uppercase ==
    <<"A","B","C","D","E","F","G","H","I","J","K","L","M",
      "N","O","P","Q","R","S","T","U","V","W","X","Y","Z">>
digits == {"0","1","2","3","4","5","6","7","8","9"}

Range(f) == {f[i] : i \in DOMAIN f}

(* the characters of [A-Za-z0-9] *)
AsciiAlnum(c) == c \in Range(ascii_lowercase) \cup Range(ascii_uppercase) \cup digits

(* letters outside ASCII: str.isalnum() holds of them, so \w matches them *)
UnicodeLetters == {"U+00E9", "U+00C9"}

(* \w of a str pattern, line 178 and line 182 *)
WordChar(c) == AsciiAlnum(c) \/ c = "_" \/ c \in UnicodeLetters

(* \s *)
SpaceChar(c) == c \in {" ", "\t"}

(* [^\s<>] of line 170 *)
TokenChar(c) == ~SpaceChar(c) /\ c \notin {"<", ">"}

(* str.lower() on one character *)
LowerChar(c) ==
    IF c \in Range(ascii_uppercase)
    THEN ascii_lowercase[CHOOSE i \in DOMAIN ascii_uppercase : ascii_uppercase[i] = c]
    ELSE IF c = "U+00C9" THEN "U+00E9" ELSE c

lower(s) == [i \in DOMAIN s |-> LowerChar(s[i])]

(* first alternative of line 170 at position p: <(.+?)>, lazily *)
Alt1Ends(s, p) == {q \in (p + 2)..Len(s) : s[q] = ">"}
Alt1At(s, p) == s[p] = "<" /\ Alt1Ends(s, p) # {}
Alt1Group(s, p) ==
    LET q == CHOOSE e \in Alt1Ends(s, p) : \A f \in Alt1Ends(s, p) : e <= f
    IN  SubSeq(s, p + 1, q - 1)

(* second alternative at position p: [^\s<>]+@[^\s<>]+, greedily; the run  *)
(* of token characters from p must hold an @ with a character on each side *)
RunEnd(s, p) ==
    CHOOSE e \in p..Len(s) :
        /\ \A i \in p..e : TokenChar(s[i])
        /\ e = Len(s) \/ ~TokenChar(s[e + 1])
Alt2At(s, p) ==
    /\ TokenChar(s[p])
    /\ \E a \in (p + 1)..(RunEnd(s, p) - 1) : s[a] = "@"
Alt2Group(s, p) == SubSeq(s, p, RunEnd(s, p))

(* re.search of line 170 and lines 171-174 *)
MatchAt(s, p) == Alt1At(s, p) \/ Alt2At(s, p)
email_addr(s) ==
    IF \E p \in 1..Len(s) : MatchAt(s, p)
    THEN LET p == CHOOSE i \in 1..Len(s) :
                      MatchAt(s, i) /\ \A j \in 1..(i - 1) : ~MatchAt(s, j)
         IN  IF Alt1At(s, p) THEN Alt1Group(s, p) ELSE Alt2Group(s, p)
    ELSE s

(* lines 177-178 *)
KeptInSender(c) == WordChar(c) \/ c \in {"-", "_"}
clean_sender(addr) ==
    LET under == [i \in DOMAIN addr |->
                    IF LowerChar(addr[i]) \in {"<", ">", "@", "."}
                    THEN "_" ELSE LowerChar(addr[i])]
    IN  SelectSeq(under, KeptInSender)

(* os.path.splitext of line 181 (posixpath): the extension starts at the   *)
(* last dot that follows the last "/" and has a non-dot character between  *)
(* that "/" and itself                                                     *)
LastIndex(s, c) ==
    IF \E i \in 1..Len(s) : s[i] = c
    THEN CHOOSE i \in 1..Len(s) : s[i] = c /\ \A j \in (i + 1)..Len(s) : s[j] # c
    ELSE 0
DotIndex(s) ==
    LET sep == LastIndex(s, "/")
        dot == LastIndex(s, ".")
    IN  IF dot > sep /\ \E i \in (sep + 1)..(dot - 1) : s[i] # "." THEN dot ELSE 0
splitext(s) ==
    IF DotIndex(s) = 0
    THEN <<s, <<>>>>
    ELSE <<SubSeq(s, 1, DotIndex(s) - 1), SubSeq(s, DotIndex(s), Len(s))>>

(* line 182 *)
KeptInName(c) == WordChar(c) \/ c \in {"-", "_", "."}
clean_name(name) == [i \in DOMAIN name |-> IF KeptInName(name[i]) THEN name[i] ELSE "_"]

(* lines 167-187 *)
sanitize_filename(fname, sndr, ts) ==
    clean_sender(email_addr(sndr)) \o <<"_">> \o ts \o <<"_">>
        \o clean_name(splitext(fname)[1]) \o lower(splitext(fname)[2])

(* the arguments the sanitizer is tried on: up to three pieces each, and   *)
(* the scenario "Jane Doe <jane@ex.com>", "Report (Final).PDF"             *)
SenderPieces ==
    { <<>>, <<"J","o">>, <<" ">>, <<"<","J","@","x",".","e",">">>,
      <<"a","@","x">>, <<"U+00E9">> }
FilenamePieces ==
    { <<>>, <<"R">>, <<" ">>, <<".","P","d","f">>, <<"/">>, <<"U+00E9">> , <<".">>}
JaneDoe ==
    <<"J","a","n","e"," ","D","o","e"," ","<","j","a","n","e","@","e","x",".","c","o","m",">">>
ReportFinal ==
    <<"R","e","p","o","r","t"," ","(","F","i","n","a","l",")",".","P","D","F">>
Senders == {a \o b \o c : a \in SenderPieces, b \in SenderPieces, c \in SenderPieces} \cup {JaneDoe}
Filenames ==
    {a \o b \o c : a \in FilenamePieces, b \in FilenamePieces, c \in FilenamePieces}
        \cup {ReportFinal}
Stamp20240101 == <<"2","0","2","4","0","1","0","1","_","1","2","0","0","0","0">>

SanInit ==
    /\ sender \in Senders
    /\ filename \in Filenames
    /\ stamp = Stamp20240101
    /\ unique_filename = <<>>

(* one call of _sanitize_filename *)
sanitize_call ==
    /\ unique_filename = <<>>
    /\ unique_filename' = sanitize_filename(filename, sender, stamp)
    /\ UNCHANGED <<sender, filename, stamp>>
    /\ UNCHANGED <<watch, sto, tagv>>

SanSpecInit == WatcherInit /\ collector = "prompt" /\ StoIdle /\ SanInit /\ TagIdle

SanSpec == SanSpecInit /\ [][sanitize_call]_vars

(***************************************************************************)
(* _process_email from line 507 on, _process_attachment and _process_pdf   *)
(* on the local file system.  The attachments directory is a function from *)
(* file names to contents; a content is a record with the bytes of an      *)
(* attachment or the fields of a summary.  Bytes and the characters of an  *)
(* extracted text are numbers (32 is the blank).                           *)
(***************************************************************************)
MaxRounds == 2      \* the raw message is processed at most this often
MaxNow == 1         \* the clock runs from second 0 to this second
MaxFaults == 1      \* at most this many calls fail on the file system
PreviewChars == 1000

PdfName == <<"a", ".", "P", "D", "F">>
OtherName == <<"n">>
RawSender == <<"J", " ", "<", "j", "@", "x", ">">>

(* a message with two attachments of the same name, and one with a PDF     *)
(* and another file                                                        *)
RawMessages ==
    { [sender |-> RawSender,
       parts |-> <<[filename |-> OtherName, data |-> <<1, 2>>],
                   [filename |-> OtherName, data |-> <<3>>]>>],
      [sender |-> RawSender,
       parts |-> <<[filename |-> PdfName, data |-> <<1>>],
                   [filename |-> OtherName, data |-> <<1, 2>>]>>] }

(* what _extract_pdf_text may return: nothing, blanks, and texts around    *)
(* the length of the preview                                               *)
Text(n) == [i \in 1..n |-> 33 + (i % 90)]
Texts == { <<>>, <<32, 32>>, Text(1), Text(PreviewChars), Text(PreviewChars + 1) }

(* str.strip() leaves nothing: line 464 *)
Blank(text) == \A i \in 1..Len(text) : text[i] \in {9, 10, 32}

(* datetime.now().strftime('%Y%m%d_%H%M%S'), line 512, for the seconds     *)
(* 12:00:00 to 12:00:09 of 2024-01-01                                      *)
DigitChar == <<"0","1","2","3","4","5","6","7","8","9">>
strftime_to_the_minute(t) ==
    <<"2","0","2","4","0","1","0","1","_","1","2","0","0">>
strftime(t) ==
    <<"2","0","2","4","0","1","0","1","_","1","2","0","0","0">> \o <<DigitChar[t + 1]>>

(* filename.lower().endswith('.pdf'), line 447 *)
IsPdfName(fname) ==
    /\ Len(fname) >= 4
    /\ SubSeq(lower(fname), Len(fname) - 3, Len(fname)) = <<".", "p", "d", "f">>

(* pathlib's stem, line 474: the name without its last suffix *)
Stem(name) ==
    LET i == LastIndex(name, ".")
    IN  IF 1 < i /\ i < Len(name) THEN SubSeq(name, 1, i - 1) ELSE name
summary_path(path) == Stem(path) \o <<"_","s","u","m","m","a","r","y",".","t","x","t">>

(* the contents of a file *)
AttachmentFile(data) ==
    [kind |-> "attachment", data |-> data, preview |-> <<>>, continues |-> FALSE]

(* lines 476-491: the preview is text[:min(1000, len(text))], and the      *)
(* continuation line is written when the text is longer than the preview   *)
SummaryFile_marks_from_preview_length(text) ==
    LET preview_length == IF Len(text) < PreviewChars THEN Len(text) ELSE PreviewChars
    IN  [kind |-> "summary", data |-> <<>>,
         preview |-> SubSeq(text, 1, preview_length),
         continues |-> Len(text) >= preview_length /\ preview_length = PreviewChars]
SummaryFile(text) ==
    LET preview_length == IF Len(text) < PreviewChars THEN Len(text) ELSE PreviewChars
    IN  [kind |-> "summary", data |-> <<>>,
         preview |-> SubSeq(text, 1, preview_length),
         continues |-> Len(text) > preview_length]

WriteFile(d, path, content) ==
    [f \in DOMAIN d \cup {path} |-> IF f = path THEN content ELSE d[f]]

(* line 415-416: the path is made of the name of the part, the sender and  *)
(* the timestamp taken at line 512                                         *)
file_path_stamped_per_part(p) == sanitize_filename(p.filename, raw.sender, strftime(now))
file_path(p) == sanitize_filename(p.filename, raw.sender, timestamp)

(* lines 425-433 *)
attachment_info_size_of_name(p) ==
    [sender |-> raw.sender, original_filename |-> p.filename,
     saved_filename |-> file_path(p), file_size |-> Len(p.filename),
     file_path |-> file_path(p)]
attachment_info(p) ==
    [sender |-> raw.sender, original_filename |-> p.filename,
     saved_filename |-> file_path(p), file_size |-> Len(p.data),
     file_path |-> file_path(p)]

(* lines 436-444: the record is appended outside Docker mode only *)
json_log_in_every_mode(recs, info) == Append(recs, info)
json_log(recs, info) == IF docker_mode THEN recs ELSE Append(recs, info)

Written(kind, path, returned, text) ==
    [round |-> round, part |-> partno, second |-> started, kind |-> kind,
     path |-> path, returned |-> returned, text |-> text]

StoInit ==
    /\ docker_mode \in BOOLEAN
    /\ summarize \in BOOLEAN
    /\ raw \in RawMessages
    /\ now = 0
    /\ timestamp = <<>>
    /\ started = 0
    /\ partno = 0
    /\ round = 0
    /\ disk = <<>>
    /\ records = <<>>
    /\ writes = <<>>

(* lines 507-524: the timestamp is taken once, then the parts are walked *)
process_email_stamp ==
    /\ partno = 0
    /\ round < MaxRounds
    /\ round' = round + 1
    /\ timestamp' = strftime(now)
    /\ started' = now
    /\ partno' = 1
    /\ UNCHANGED <<docker_mode, summarize, raw, now, disk, records, writes>>
    /\ UNCHANGED <<watch, san, tagv>>

(* _process_pdf, lines 456-496, on the file just saved (d and w are the    *)
(* directory and the writes after the save): a summary is written for a    *)
(* text that is not blank, unless the description or the write raises      *)
process_pdf_file(path, d, w) ==
    \/ /\ disk' = d
       /\ writes' = w
    \/ \E text \in Texts :
           /\ ~Blank(text)
           /\ disk' = WriteFile(d, summary_path(path), SummaryFile(text))
           /\ writes' = Append(w, Written("summary", summary_path(path), TRUE, text))

(* the calls that ended in the handler of line 452 *)
Faults == Cardinality({i \in DOMAIN writes : ~writes[i].returned})

(* _process_attachment, lines 410-454, called at line 535 for the part the *)
(* loop is at: open fails; or the write fails and leaves a part of the     *)
(* data; or the file is written and the append to attachments.json fails;  *)
(* or all goes through and the call returns the path                       *)
process_attachment_file ==
    /\ partno >= 1
    /\ LET p == raw.parts[partno]
           path == file_path(p)
           saved == WriteFile(disk, path, AttachmentFile(p.data))
       IN  \/ /\ Faults < MaxFaults
              /\ writes' = Append(writes, Written("none", path, FALSE, <<>>))
              /\ UNCHANGED <<disk, records>>
           \/ /\ Faults < MaxFaults
              /\ \E n \in 0..(Len(p.data) - 1) :
                     disk' = WriteFile(disk, path, AttachmentFile(SubSeq(p.data, 1, n)))
              /\ writes' = Append(writes, Written("truncated", path, FALSE, <<>>))
              /\ UNCHANGED records
           \/ /\ Faults < MaxFaults
              /\ ~docker_mode
              /\ disk' = saved
              /\ writes' = Append(writes, Written("attachment", path, FALSE, <<>>))
              /\ UNCHANGED records
           \/ /\ records' = json_log(records, attachment_info(p))
              /\ IF IsPdfName(p.filename) /\ summarize
                 THEN process_pdf_file(path, saved,
                          Append(writes, Written("attachment", path, TRUE, <<>>)))
                 ELSE /\ disk' = saved
                      /\ writes' = Append(writes, Written("attachment", path, TRUE, <<>>))
    /\ partno' = IF partno < Len(raw.parts) THEN partno + 1 ELSE 0
    /\ UNCHANGED <<docker_mode, summarize, raw, now, timestamp, started, round>>
    /\ UNCHANGED <<watch, san, tagv>>

(* a second passes *)
clock_tick ==
    /\ now < MaxNow
    /\ now' = now + 1
    /\ UNCHANGED <<docker_mode, summarize, raw, timestamp, started, partno, round,
                   disk, records, writes>>
    /\ UNCHANGED <<watch, san, tagv>>

StoNext ==
    \/ process_email_stamp
    \/ process_attachment_file
    \/ clock_tick

StoreSpecInit == WatcherInit /\ collector = "prompt" /\ SanIdle /\ StoInit /\ TagIdle

StoreSpec == StoreSpecInit /\ [][StoNext]_vars

(***************************************************************************)
(* The tags of one session and the termination wait of lines 634-637 and   *)
(* 651-654, with tags and server lines as sequences of characters.         *)
(* imaplib's _new_tag, called at line 597 and by every command, returns    *)
(* tagpre + str(tagnum) and increments tagnum.                             *)
(***************************************************************************)
MaxTag == 11        \* tags are taken while tagnum is below this

tagpre == <<"A", "B", "C", "D">>

RECURSIVE str(_)
str(n) == IF n < 10 THEN <<DigitChar[n + 1]>>
                    ELSE str(n \div 10) \o <<DigitChar[(n % 10) + 1]>>

new_tag(n) == tagpre \o str(n)

(* tag in idle_resp.decode(...): the tag occurs somewhere in the line *)
Contains(line, t) ==
    \E i \in 1..(Len(line) - Len(t) + 1) : SubSeq(line, i, i + Len(t) - 1) = t

(* what the server may write: the completion of a command, "<tag> OK ..."  *)
(* or "<tag> BAD ...", and untagged lines, whose text is free              *)
CompletionLines(t) == {t \o <<" ", "O", "K">>, t \o <<" ", "B", "A", "D">>}
UntaggedLines(t) ==
    { <<"*", " ", "3", " ", "E", "X", "I", "S", "T", "S">>,
      <<"*", " ", "O", "K", " ", "S", "t", "i", "l", "l", " ", "h", "e", "r", "e">>,
      <<"*", " ", "O", "K", " ">> \o t \o <<" ", "d", "o", "n", "e">>,
      <<"+", " ", "i", "d", "l", "i", "n", "g">> }
ServerLines ==
    UNION {CompletionLines(new_tag(n)) \cup UntaggedLines(new_tag(n)) : n \in 0..MaxTag}

(* a command issued through imaplib: login, select, search, fetch, store *)
imap_command ==
    /\ phase = "command"
    /\ tagnum < MaxTag
    /\ tags' = Append(tags, new_tag(tagnum))
    /\ tagnum' = tagnum + 1
    /\ UNCHANGED <<idle_tag, idle_resp, phase>>
    /\ UNCHANGED <<watch, san, sto>>

(* lines 597-600: the handshake takes its tag and sends IDLE *)
idle_start ==
    /\ phase = "command"
    /\ tagnum < MaxTag
    /\ idle_tag' = new_tag(tagnum)
    /\ tags' = Append(tags, new_tag(tagnum))
    /\ tagnum' = tagnum + 1
    /\ phase' = "idling"
    /\ idle_resp' = <<>>
    /\ UNCHANGED <<watch, san, sto>>

(* lines 631 and 648: DONE is sent, the termination wait begins *)
idle_done ==
    /\ phase = "idling"
    /\ phase' = "waiting"
    /\ UNCHANGED <<tagnum, tags, idle_tag, idle_resp>>
    /\ UNCHANGED <<watch, san, sto>>

(* lines 635-637 and 652-654: one readline of the termination wait *)
idle_term_readline ==
    /\ phase = "waiting"
    /\ \E line \in ServerLines :
           /\ idle_resp' = line
           /\ phase' = IF Contains(line, idle_tag) THEN "ended" ELSE "waiting"
    /\ UNCHANGED <<tagnum, tags, idle_tag>>
    /\ UNCHANGED <<watch, san, sto>>

(* line 640 or 643/655: on with the loop, and to the next handshake *)
idle_restart ==
    /\ phase = "ended"
    /\ phase' = "command"
    /\ UNCHANGED <<tagnum, tags, idle_tag, idle_resp>>
    /\ UNCHANGED <<watch, san, sto>>

TagNext ==
    \/ imap_command
    \/ idle_start
    \/ idle_done
    \/ idle_term_readline
    \/ idle_restart

TagSpecInit == WatcherInit /\ collector = "prompt" /\ SanIdle /\ StoIdle /\ TagIdle

TagSpec == TagSpecInit /\ [][TagNext]_vars




----------------------------------------------------------------------------
(* Properties *)

ScanPcs == {"pnm_select", "pnm_search", "poll_select", "poll_search",
            "start_search", "proc_fetch", "proc_hdr", "proc_part", "scan_store"}
WaitPcs == {"wait_read", "term_done", "term_ack", "wait_exc"}

(* C1: while an IDLE is outstanding (sent, its tagged completion not yet   *)
(* read) the only thing the watcher sends on the session is DONE.          *)
C1_OnlyDoneWhileIdle == sentInIdle => lastSent = "DONE"

(* C2: a message is flagged \Seen on the server only after it has been     *)
(* fetched and parsed and every qualifying attachment of it has been       *)
(* written (a message without qualifying attachment: after it was parsed). *)
C2_SeenOnlyAfterSaved ==
    \A m \in Msgs :
        mbox[m] = "seen" =>
            /\ <<"processing", m, 0>> \in log
            /\ \A i \in QualifyingParts(m) : <<m, i>> \in files

(* C3: a shutdown signal that arrives in the IDLE wait ends the process    *)
(* only after DONE was sent and the tagged acknowledgment was read: the    *)
(* process never ends on a signal with the wait still outstanding.         *)
C3_NoExitWhileWaiting ==
    (pc = "exited" /\ signalled) => idle \notin {"acked", "done"}

(* C4: the process ends only on a shutdown signal. *)
C4_OnlySignalEnds == pc = "exited" => signalled

(* C5: an IDLE command is sent on a session only after an UNSEEN search    *)
(* has been made on that session.                                          *)
C5_ScanBeforeIdle == lastSent = "IDLE" => scanned

(* C6: no new-message notification is lost: when the monitor blocks in an  *)
(* acknowledged IDLE wait with nothing left to read, every message the     *)
(* server has announced has been taken up by a scan: none is unseen.       *)
C6_NoLostNotification ==
    (pc = "wait_read" /\ idle = "acked" /\ conn = "open" /\ lines = <<>>
        /\ ~unreported) =>
        \A m \in Msgs : mbox[m] # "unseen"

(* C7: once the monitor has been in the IDLE wait for more than 1740       *)
(* seconds it leaves the wait loop (to send DONE for the refresh), whether *)
(* or not the server sends another line.                                   *)
C7_RefreshWithoutPush ==
    (pc = "wait_read" /\ elapsed > IdleRefreshSecs) ~> (pc # "wait_read")

(* C8: after an IDLE termination the next step is fixed by the reason.     *)
(* When the tagged acknowledgment is read, a new-message termination goes  *)
(* to the unseen scan of _process_new_messages and a refresh termination   *)
(* goes back to the top of the loop on the same session; and between a     *)
(* refresh termination and the next IDLE handshake no scan runs: no        *)
(* SEARCH, FETCH or STORE is issued.                                       *)
C8_NextStepByReason ==
    /\ [](reason = "refresh" =>
             /\ pc \notin ScanPcs
             /\ lastSent \notin {"SEARCH", "FETCH", "STORE"})
    /\ [][(pc = "term_ack" /\ pc' \notin {"term_ack", "wait_exc", "exited"}) =>
             /\ idle' = "none"
             /\ reason = "newdata" => pc' = "pnm_select"
             /\ reason = "refresh" => (pc' = "mon_top" /\ mail' = mail /\ conn' = conn)
             /\ reason \in {"newdata", "refresh"}]_vars
    /\ [][(pc = "mon_top" /\ reason = "refresh" /\ pc' \notin {"mon_top", "exited"}) =>
             pc' = "mon_select"]_vars

(* a refresh termination has been acknowledged and the monitor is about to *)
(* send the next IDLE on the same session                                  *)
C8_Witness == pc = "idle_send" /\ reason = "refresh" /\ conn = "open" /\ idle = "none"

C10_HandshakeEnds ==
    (pc = "ack_read" /\ conn = "eof") ~> (pc \in {"wait_read", "setup_fail", "exited"})

(* C11: the wait for the IDLE termination acknowledgment ends: after DONE  *)
(* is sent the monitor leaves the loop that reads for the tagged line, by  *)
(* reading it or by an error that leads to the teardown.                   *)
C11_TerminationWaitEnds ==
    (pc = "term_ack") ~> (pc # "term_ack")

(* C12: a transport error during the IDLE wait (the connection is closed   *)
(* or reset while the monitor is in the wait loop) leads to the session    *)
(* being torn down.                                                        *)
C12_TransportErrorTearsDown ==
    (pc = "wait_read" /\ conn \in {"eof", "reset"}) ~> (mail = "None" \/ pc = "exited")

(* C13: when IDLE setup fails the monitor logs out and discards the        *)
(* session, reconnects, runs one polling scan if the reconnect succeeded,  *)
(* sleeps and goes back to the IDLE handshake.  Polling is entered only    *)
(* from the reconnect of the failure handler, a polling scan ends in the   *)
(* sleep, and the sleep is followed by the top of the loop, which selects  *)
(* and sends IDLE.                                                         *)
C13_OnePollThenIdle ==
    /\ [][(pc = "setup_fail" /\ pc' \notin {"setup_fail", "exited"}) =>
             /\ pc' = "sf_connect"
             /\ mail' = "None"
             /\ conn \in {"open", "eof"} => lastSent' = "LOGOUT"]_vars
    /\ [][(pc = "sf_connect" /\ pc' \notin {"sf_connect", "exited"}) =>
             \/ pc' = "poll_select" /\ mail' = "session"
             \/ pc' = "sleep10" /\ mail' = "None"]_vars
    /\ [][(pc' = "poll_select" /\ pc # "poll_select") => pc = "sf_connect"]_vars
    /\ [][(pc = "poll_select" /\ pc' \notin {"poll_select", "exited"}) =>
             pc' \in {"poll_search", "sleep10"}]_vars
    /\ [][(pc = "poll_search" /\ pc' \notin {"poll_search", "exited"}) =>
             \/ pc' = "sleep10"
             \/ pc' = "proc_fetch" /\ ctx' = "poll"]_vars
    /\ [][(ctx = "poll" /\ ctx' # "poll" /\ pc' # "exited") => pc' = "sleep10"]_vars
    /\ [][(pc = "sleep10" /\ pc' \notin {"sleep10", "exited"}) => pc' = "mon_top"]_vars
    /\ [][(pc = "mon_top" /\ pc' \notin {"mon_top", "exited"}) =>
             pc' = IF mail = "session" THEN "mon_select" ELSE "mon_connect"]_vars
    /\ [][(pc = "mon_select" /\ pc' \notin {"mon_select", "exited"}) =>
             pc' \in {"idle_send", "setup_fail"}]_vars

(* after a setup failure the reconnect succeeded and the one polling scan  *)
(* has handled a message; the monitor is in the sleep before the next IDLE *)
C13_Witness ==
    pc = "sleep10" /\ mail = "session" /\ scanned /\ lastSent = "STORE"

(* the delays slept since the last successful connect *)
Delays == SelectSeq(attempts, LAMBDA x : x > 0)

(* C14: between two connection attempts that fail there is a delay, the    *)
(* delays between consecutive failures are non-decreasing, and after the   *)
(* delay that follows a failure the monitor makes the next attempt.        *)
C14_BackoffBetweenAttempts ==
    /\ [](\A i \in 1..(Len(attempts) - 1) : ~(attempts[i] = 0 /\ attempts[i + 1] = 0))
    /\ [](\A i, j \in 1..Len(Delays) : i < j => Delays[i] <= Delays[j])
    /\ [][(pc \in {"sleep30", "sleep10"} /\ mail = "None" /\ pc' \notin {pc, "exited"}) =>
             /\ attempts'[Len(attempts')] > 0
             /\ pc' = "mon_top"]_vars
    /\ [][(pc = "mon_top" /\ mail = "None" /\ pc' \notin {"mon_top", "exited"}) =>
             pc' = "mon_connect"]_vars
    /\ [][(pc = "mon_connect" /\ pc' \notin {"mon_connect", "exited"}) =>
             \/ pc' = "mon_select" /\ attempts' = <<>>
             \/ pc' = "sleep30" /\ attempts'[Len(attempts')] = 0]_vars

(* three connects in a row have failed, each followed by its delay, and    *)
(* the monitor is at the fourth attempt                                    *)
C14_Witness ==
    /\ pc = "mon_connect"
    /\ Len(attempts) = 2 * MaxFails
    /\ \A i \in 1..MaxFails : attempts[2 * i - 1] = 0 /\ attempts[2 * i] > 0

(* C15: against a server to which every connect succeeds, whose connection *)
(* stays up, and which never acknowledges IDLE (it rejects the command, or *)
(* answers with something that is not the expected acknowledgment, or does *)
(* not answer), every unseen message is eventually marked seen.            *)
C15_PollingFallbackProgress ==
    ( /\ [](pc \notin {"exited", "sleep30"})
      /\ [](pc = "sleep10" => mail = "session")
      /\ [](conn \notin {"eof", "reset"})
      /\ [](replied \notin {"idling", "ok"}) )
    => \A m \in Msgs : (mbox[m] = "unseen") ~> (mbox[m] = "seen")

(* C16: a failure to write one attachment skips only that attachment.  The *)
(* failure is logged and the loop goes on to the next part, so every       *)
(* qualifying part the loop has passed is either written or logged as      *)
(* failed; after the loop the message is marked seen.                      *)
C16_WriteFailureSkipsOnlyThatPart ==
    /\ [](pc = "proc_part" =>
             \A i \in QualifyingParts(Head(ids)) :
                 i < part => \/ <<Head(ids), i>> \in files
                             \/ <<"save_failed", Head(ids), i>> \in log)
    /\ [][(/\ pc = "proc_part"
           /\ part <= Len(MsgParts(Head(ids)))
           /\ part' # part
           /\ pc' # "exited"
           /\ Qualifies(MsgParts(Head(ids))[part])
           /\ <<Head(ids), part>> \notin files') =>
             /\ <<"save_failed", Head(ids), part>> \in log'
             /\ pc' = "proc_part"
             /\ part' = part + 1
             /\ ids' = ids
             /\ mail' = mail]_vars
    /\ [][(pc = "proc_part" /\ pc' \notin {"proc_part", "exited"}) =>
             pc' = "scan_store" /\ ids' = ids]_vars
    /\ [][(pc = "scan_store" /\ conn = "open" /\ pc' \notin {"scan_store", "exited"}) =>
             lastSent' = "STORE" /\ mbox'[Head(ids)] = "seen"]_vars

(* the first attachment of message 1 failed to write, the third was saved  *)
(* and the message has been marked seen                                    *)
C16_Witness ==
    /\ <<"save_failed", 1, 1>> \in log
    /\ <<1, 1>> \notin files
    /\ <<1, 3>> \in files
    /\ mbox[1] = "seen"
    /\ lastSent = "STORE"
    /\ pc = "mon_top"

(* C17: a message that cannot be fetched or parsed is skipped with a log   *)
(* record and leaves the session as it is: the handle is kept, and on a    *)
(* session that is up the scan marks the message seen and goes on to the   *)
(* next message of the same scan.                                          *)
C17_FailedMessageLeavesSession ==
    /\ [][(pc = "proc_fetch" /\ pc' = "scan_store") =>
             /\ <<"email_failed", Head(ids), 0>> \in log'
             /\ mail' = mail
             /\ conn' = conn
             /\ ids' = ids
             /\ ctx' = ctx
             /\ files' = files]_vars
    /\ [][(pc = "scan_store" /\ conn = "open" /\ pc' \notin {"scan_store", "exited"}) =>
             /\ mail' = mail
             /\ conn' = "open"
             /\ ids' = Tail(ids)
             /\ Tail(ids) # <<>> => pc' = "proc_fetch"]_vars

(* message 1 could not be processed and was skipped; the scan is fetching  *)
(* message 2 on the same session                                           *)
C17_Witness ==
    /\ pc = "proc_fetch"
    /\ Head(ids) = 2
    /\ <<"email_failed", 1, 0>> \in log
    /\ <<"processing", 1, 0>> \notin log
    /\ mbox[1] = "seen"
    /\ mail = "session"
    /\ conn = "open"

(* C18: a failure of the PDF analysis changes neither the storage outcome  *)
(* nor the seen flag: the file is in place and recorded as saved, no save  *)
(* failure is recorded, and the loop goes on to the next part.             *)
C18_AnalysisFailureHarmless ==
    /\ [](\A m \in Msgs : \A i \in 1..Len(MsgParts(m)) :
             <<"analysis_failed", m, i>> \in log =>
                 <<m, i>> \in files /\ <<"saved", m, i>> \in log)
    /\ [][(/\ pc = "proc_part"
           /\ <<"analysis_failed", Head(ids), part>> \in log'
           /\ <<"analysis_failed", Head(ids), part>> \notin log) =>
             /\ <<Head(ids), part>> \in files'
             /\ <<"save_failed", Head(ids), part>> \in log' =>
                    <<"save_failed", Head(ids), part>> \in log
             /\ pc' = "proc_part"
             /\ part' = part + 1
             /\ ids' = ids
             /\ mbox' = mbox]_vars

(* the analysis of the PDF of message 1 failed; the PDF and the later      *)
(* attachment are saved and the message has been marked seen               *)
C18_Witness ==
    /\ <<"analysis_failed", 1, 1>> \in log
    /\ <<1, 1>> \in files
    /\ <<1, 3>> \in files
    /\ mbox[1] = "seen"
    /\ pc = "mon_top"

(* C19: a part is written only if its content disposition is attachment,   *)
(* its filename is non-empty and its payload is non-empty; the loop over    *)
(* the parts ends in the marking of the message, whatever was written.      *)
C19_OnlyQualifyingPartsSaved ==
    /\ [](\A m \in Msgs : \A i \in 1..Len(MsgParts(m)) :
             <<m, i>> \in files =>
                 /\ MsgParts(m)[i].disp = "attachment"
                 /\ MsgParts(m)[i].name
                 /\ MsgParts(m)[i].data)
    /\ [][(pc = "proc_part" /\ part > Len(MsgParts(Head(ids))) /\ pc' \notin {"proc_part", "exited"}) =>
             /\ pc' = "scan_store"
             /\ files' = files
             /\ ids' = ids]_vars

(* message 2, whose only attachment part has no filename, has been         *)
(* processed and marked seen with no file written                          *)
C19_Witness ==
    /\ <<"processing", 2, 0>> \in log
    /\ mbox[2] = "seen"
    /\ lastSent = "STORE"
    /\ pc = "mon_top"
    /\ \A i \in 1..Len(MsgParts(2)) : <<2, i>> \notin files

(* C20: when a message is about to be marked seen, the message was skipped *)
(* with a log record, or every part of it with content disposition         *)
(* attachment that is not written has a log record of its own.             *)
C20_NoSilentDrop ==
    pc = "scan_store" =>
        \/ <<"email_failed", Head(ids), 0>> \in log
        \/ \A i \in 1..Len(MsgParts(Head(ids))) :
               (MsgParts(Head(ids))[i].disp = "attachment" /\ <<Head(ids), i>> \notin files)
                   => \E r \in log : r[2] = Head(ids) /\ r[3] = i

(***************************************************************************)
(* Saving attachments, under StoreSpec                                     *)
(***************************************************************************)

(* the calls of _process_attachment that wrote the whole file, and those   *)
(* among them that returned the path                                       *)
FileWrites == {i \in DOMAIN writes : writes[i].kind = "attachment"}
Saves == {i \in FileWrites : writes[i].returned}
RecordsAt(path) == {i \in DOMAIN records : records[i].file_path = path}
SavesAt(path) == {i \in Saves : writes[i].path = path}
NewWrites == {i \in DOMAIN writes' : i > Len(writes)}
IsPrefix(s, t) == Len(s) <= Len(t) /\ SubSeq(t, 1, Len(s)) = s

(* C21 as stated: in every mode of operation the log holds one record per  *)
(* attachment saved                                                        *)
C21_OneRecordPerSave == Len(records) = Cardinality(Saves)

(* C21: outside Docker mode each successful save writes one file and       *)
(* appends one record, so that the log holds as many records as            *)
(* attachments were saved; in Docker mode no record is appended; the       *)
(* records already in the log are never rewritten or removed               *)
C21_OneRecordPerSaveOutsideDocker ==
    /\ [](IF docker_mode THEN records = <<>> ELSE Len(records) = Cardinality(Saves))
    /\ [][/\ IsPrefix(records, records')
          /\ Len(records') <= Len(records) + 1
          /\ Cardinality({i \in NewWrites : writes'[i].kind \in {"attachment", "truncated"}}) <= 1
          /\ (Len(records') > Len(records))
                 => \E i \in NewWrites : writes'[i].kind = "attachment"
                                          /\ writes'[i].returned]_vars

C21_Witness ==
    /\ ~docker_mode
    /\ Len(records) = 2
    /\ Cardinality(Saves) = 2
    /\ \E i \in FileWrites : ~writes[i].returned

(* C22 as stated: every record's file_size is the length of the file that  *)
(* is stored at the record's file_path                                     *)
C22_SizeMatchesFile ==
    \A i \in DOMAIN records :
        /\ records[i].file_path \in DOMAIN disk
        /\ Len(disk[records[i].file_path].data) = records[i].file_size

(* C22: when a record is appended, its file_size is the byte length of the *)
(* file that the same save has just stored at the record's file_path       *)
C22_SizeMatchesFileWhenAppended ==
    [][Len(records') > Len(records) =>
          LET r == records'[Len(records')]
          IN  /\ r.file_path \in DOMAIN disk'
              /\ disk'[r.file_path].kind = "attachment"
              /\ Len(disk'[r.file_path].data) = r.file_size]_vars

C22_Witness ==
    /\ Len(records) = 2
    /\ records[1].file_path = records[2].file_path
    /\ records[1].file_size # records[2].file_size
    /\ Len(disk[records[2].file_path].data) = records[2].file_size

(* C23 as stated: two processings of the message never write the same file *)
C23_TwoIndependentFiles ==
    \A i \in FileWrites, j \in FileWrites :
        writes[i].round # writes[j].round => writes[i].path # writes[j].path

(* C23: two processings of the message that take their timestamps in       *)
(* different seconds write different files, and no file of the one is      *)
(* overwritten, truncated or otherwise changed by the other                *)
C23_IndependentAcrossSeconds ==
    /\ [](\A i \in DOMAIN writes, j \in DOMAIN writes :
              writes[i].second # writes[j].second => writes[i].path # writes[j].path)
    /\ [][\A i \in DOMAIN writes :
              (writes[i].kind # "none" /\ writes[i].second # started') =>
                  /\ writes[i].path \in DOMAIN disk'
                  /\ disk'[writes[i].path] = disk[writes[i].path]]_vars

C23_Witness ==
    \E i \in FileWrites, j \in FileWrites :
        /\ writes[i].round = 1 /\ writes[j].round = 2
        /\ writes[i].part = writes[j].part
        /\ writes[i].second # writes[j].second
        /\ disk[writes[i].path] = AttachmentFile(raw.parts[writes[i].part].data)
        /\ disk[writes[j].path] = AttachmentFile(raw.parts[writes[j].part].data)

(* two writes of attachments of the same original name whose processings   *)
(* took their timestamp in the same second                                 *)
Collide(i, j) ==
    /\ writes[i].kind \in {"attachment", "truncated"}
    /\ writes[j].kind \in {"attachment", "truncated"}
    /\ raw.parts[writes[i].part].filename = raw.parts[writes[j].part].filename
    /\ writes[i].second = writes[j].second

(* C27 as stated: same sender, name and second give the same path, and a   *)
(* record is appended for each attachment saved there                      *)
C27_CollisionsKeepRecords ==
    /\ \A i \in DOMAIN writes, j \in DOMAIN writes :
           Collide(i, j) => writes[i].path = writes[j].path
    /\ \A i \in Saves :
           Cardinality(RecordsAt(writes[i].path)) = Cardinality(SavesAt(writes[i].path))

(* C27: the timestamp is taken once per message, two attachments of the    *)
(* same sender and name saved in the same second (two parts of one message *)
(* among them) go to the same path, the later write replaces the earlier   *)
(* file, and outside Docker mode a record is appended for each             *)
C27_CollisionsReplace ==
    /\ [](\A i \in DOMAIN writes, j \in DOMAIN writes :
              /\ writes[i].round = writes[j].round => writes[i].second = writes[j].second
              /\ Collide(i, j) => writes[i].path = writes[j].path)
    /\ [](~docker_mode =>
              \A i \in Saves :
                  Cardinality(RecordsAt(writes[i].path)) = Cardinality(SavesAt(writes[i].path)))
    /\ [][\A i \in NewWrites :
              writes'[i].kind = "attachment" =>
                  /\ writes'[i].path \in DOMAIN disk'
                  /\ disk'[writes'[i].path].data = raw.parts[partno].data]_vars

C27_Witness ==
    /\ ~docker_mode
    /\ \E i \in Saves, j \in Saves :
           /\ i < j
           /\ writes[i].round = writes[j].round
           /\ writes[i].path = writes[j].path
           /\ raw.parts[writes[i].part].data # raw.parts[writes[j].part].data
           /\ disk[writes[j].path].data = raw.parts[writes[j].part].data
           /\ Cardinality(RecordsAt(writes[j].path)) = 2
    /\ now > started

(* C28: a summary is written only for a saved attachment with a PDF name,  *)
(* with analysis enabled and a text that is not empty; its preview is the  *)
(* first min(1000, length) characters of the text, and the continuation    *)
(* marker follows exactly when the text is longer than 1000 characters     *)
C28_SummaryOnlyForPdfText ==
    [][\A i \in NewWrites :
          writes'[i].kind = "summary" =>
              LET text == writes'[i].text
                  file == disk'[writes'[i].path]
              IN  /\ summarize
                  /\ IsPdfName(raw.parts[partno].filename)
                  /\ text # <<>>
                  /\ \E j \in NewWrites : j < i /\ writes'[j].kind = "attachment"
                                                /\ writes'[j].returned
                  /\ file.kind = "summary"
                  /\ file.preview =
                         SubSeq(text, 1, IF Len(text) < PreviewChars THEN Len(text)
                                                                     ELSE PreviewChars)
                  /\ file.continues <=> Len(text) > PreviewChars]_vars

C28_Witness ==
    \E f \in DOMAIN disk, g \in DOMAIN disk :
        /\ disk[f].kind = "summary" /\ disk[f].continues
        /\ Len(disk[f].preview) = PreviewChars
        /\ disk[g].kind = "summary" /\ ~disk[g].continues
        /\ Len(disk[g].preview) = PreviewChars

(***************************************************************************)
(* The filename sanitizer, under SanSpec                                   *)
(***************************************************************************)

(* the bracketed addresses of a sender: "<", a token holding an @ with a   *)
(* character on each side, ">"                                             *)
IsAddress(t) ==
    /\ \A i \in 1..Len(t) : TokenChar(t[i])
    /\ \E a \in 2..(Len(t) - 1) : t[a] = "@"
BracketedAt(s, p) ==
    /\ s[p] = "<"
    /\ \E q \in (p + 2)..Len(s) : s[q] = ">" /\ IsAddress(SubSeq(s, p + 1, q - 1))
FirstBracketed(s) ==
    LET p == CHOOSE i \in 1..Len(s) :
                 BracketedAt(s, i) /\ \A j \in 1..(i - 1) : ~BracketedAt(s, j)
        q == CHOOSE e \in (p + 2)..Len(s) :
                 s[e] = ">" /\ \A f \in (p + 2)..(e - 1) : s[f] # ">"
    IN  SubSeq(s, p + 1, q - 1)

(* the part of the returned filename that precedes "_{timestamp}_": the    *)
(* cleaned stem and the extension are as long as the original filename     *)
SenderPart == SubSeq(unique_filename, 1,
                     Len(unique_filename) - (Len(filename) + Len(stamp) + 2))

(* C24: for every sender that contains an address in angle brackets, the   *)
(* sender part of the returned filename is derived from exactly that       *)
(* bracketed address, wherever any other address-like token stands         *)
C24_BracketedAddressWins ==
    (unique_filename # <<>> /\ \E p \in 1..Len(sender) : BracketedAt(sender, p))
        => SenderPart = clean_sender(FirstBracketed(sender))

(* the characters of [A-Za-z0-9_.-] *)
SafeChar(c) == AsciiAlnum(c) \/ c \in {"_", ".", "-"}

EndsWith(s, t) ==
    Len(t) <= Len(s) /\ SubSeq(s, Len(s) - Len(t) + 1, Len(s)) = t

(* C25: the returned filename holds only characters of [A-Za-z0-9_.-], no  *)
(* path separator among them, and ends with the lower-cased extension of   *)
(* the original filename                                                   *)
C25_OnlySafeCharacters ==
    unique_filename # <<>> =>
        /\ \A i \in 1..Len(unique_filename) : SafeChar(unique_filename[i])
        /\ EndsWith(unique_filename, lower(splitext(filename)[2]))

(* the sender part and the stem as the format is described: @ . < >        *)
(* replaced by _, every other character outside [A-Za-z0-9_-] removed; in  *)
(* the stem every character outside [A-Za-z0-9_.-] replaced by _           *)
KeptAscii(c) == AsciiAlnum(c) \/ c \in {"-", "_"}
DescribedSender(addr) ==
    SelectSeq([i \in DOMAIN addr |->
                   IF addr[i] \in {"<", ">", "@", "."} THEN "_" ELSE addr[i]],
              KeptAscii)
DescribedStem(name) == [i \in DOMAIN name |-> IF SafeChar(name[i]) THEN name[i] ELSE "_"]
JaneDoeResult ==
    <<"j","a","n","e","_","e","x","_","c","o","m","_">> \o Stamp20240101
        \o <<"_","R","e","p","o","r","t","_","_","F","i","n","a","l","_",".","p","d","f">>

(* C26: the returned filename is {sender part}_{timestamp}_{stem}{ext}     *)
(* with the sender part and the stem cleaned as described, and the         *)
(* scenario of Jane Doe's report yields                                    *)
(* jane_ex_com_20240101_120000_Report__Final_.pdf                          *)
C26_DescribedFormat ==
    unique_filename # <<>> =>
        /\ unique_filename =
               DescribedSender(email_addr(sender)) \o <<"_">> \o stamp \o <<"_">>
                   \o DescribedStem(splitext(filename)[1])
                   \o lower(splitext(filename)[2])
        /\ (sender = JaneDoe /\ filename = ReportFinal)
               => unique_filename = JaneDoeResult

(***************************************************************************)
(* Shutdown and sessions, under Spec and FairSpec                          *)
(***************************************************************************)

LiveConnections == (IF conn = "open" THEN 1 ELSE 0) + (IF orphan THEN 1 ELSE 0)

C31_FreshTagAndOwnCompletion ==
    /\ [][idle_start => \A i \in 1..Len(tags) : tags[i] # idle_tag']_vars
    /\ [](phase = "ended" => idle_resp \in CompletionLines(idle_tag))

(* what the watcher does to the outside in one step: a connection is       *)
(* opened (line 156), a message is fetched (line 501), an attachment or    *)
(* summary is written (lines 430, 477), a message is marked seen (the      *)
(* fetch of line 501 or the store of lines 571, 696, 775)                  *)
OpensConnection == conn # "open" /\ conn' = "open"
FetchesMessage == pc = "proc_fetch" /\ conn = "open" /\ lastSent' = "FETCH"
                     /\ pc' \in {"proc_hdr", "scan_store"}
SavesFile == files' # files
MarksSeen == \E m \in Msgs : mbox[m] # "seen" /\ mbox'[m] = "seen"

(* C32: once a shutdown signal has been handled, the watcher opens no new  *)
(* connection and fetches, saves or marks no further message, wherever in  *)
(* the run loop the signal was delivered, the blocks with a bare except    *)
(* included                                                                *)
C32_NothingAfterSignal ==
    [][signalled => ~(OpensConnection \/ FetchesMessage \/ SavesFile \/ MarksSeen)]_vars

(* the positions at which a scan issues select, search or store *)
MailboxCommandPcs == {"start_search", "pnm_select", "pnm_search",
                      "poll_select", "poll_search", "scan_store"}

(* a step of the watcher in which such a command raises *)
MailboxCommandRaises ==
    /\ pc \in MailboxCommandPcs
    /\ pc' \notin {pc, "exited"}
    /\ conn # "open"
    /\ ~(pc = "pnm_select" /\ mail = "None")

(* C33: within one scan the messages are handled in the order of the       *)
(* UNSEEN search result, each is marked seen before the next one is        *)
(* fetched, and when select, search or store raises the scan stops there:  *)
(* the messages not yet reached are neither fetched nor marked seen and    *)
(* stay unseen for a later scan                                            *)
C33_ScanInOrderStopsOnRaise ==
    /\ [][ids' # ids => \/ ids' = <<>>
                        \/ ids # <<>> /\ ids' = Tail(ids)
                        \/ ids = <<>> /\ ids' = UnseenIds]_vars
    /\ [][(FetchesMessage \/ MarksSeen) =>
             /\ ids # <<>>
             /\ \A m \in Msgs \ {Head(ids)} :
                    mbox'[m] = "seen" => mbox[m] = "seen"]_vars
    /\ [](pc = "proc_fetch" => \A m \in 1..(Head(ids) - 1) : mbox[m] = "seen")
    /\ [][MailboxCommandRaises =>
             /\ ids' = <<>>
             /\ pc' \notin ScanPcs
             /\ mbox' = mbox]_vars

(* the store of a fetched message is about to raise while a message of the *)
(* search result has not been reached                                      *)
C33_Witness ==
    /\ pc = "scan_store"
    /\ conn # "open"
    /\ Len(ids) > 1
    /\ mbox[Head(ids)] = "seen"
    /\ mbox[ids[2]] = "unseen"

====
